---- MODULE Spec2Model ----
(***************************************************************************)
(* GNAP authorization server: the HTTP adapter of pkg/restapi/gnap         *)
(* (operations.go) over the auth handler, the interaction handler and the  *)
(* stores.  The adapter is translated from operations.go; the auth handler *)
(* and the interaction handler live in packages of this repository whose   *)
(* sources are not part of the tree at hand and are modelled from sections *)
(* 4.4 - 4.6 of the specification.                                         *)
(***************************************************************************)
EXTENDS Integers, Sequences, FiniteSets, TLC

\* ------------------------------------------------------------------ bounds
\* Number of grant transactions that may be created.
MaxTxn == 1
\* Number of OIDC states /oidc/login may mint.
MaxOIDCStates == 1
\* The clock runs from 0 to MaxTime.
MaxTime == 4
\* Config.StartupTimeout ranges over 0 .. MaxStartupTimeout.
MaxStartupTimeout == 2
\* A finish URI carries at most MaxQueryLen query parameters.
MaxQueryLen == 3

\* --------------------------------------------------------------- constants
StatusOK == 200
StatusFound == 302
StatusBadRequest == 400
StatusUnauthorized == 401
StatusForbidden == 403
StatusInternalServerError == 500
StatusBadGateway == 502

errInvalidRequest == "invalid_request"
errRequestDenied == "request_denied"

\* gnap.ErrorResponse{Error: e}; Description is never set by the adapter.
ErrorResponse(e) == [error |-> e]

VARIABLES
  txns,             \* transaction store: txn_id -> GrantTransaction
  created,          \* number of transactions created so far
  tokens,           \* token store: token value -> AccessToken
  transientStore,   \* gnap_transient: OIDC state -> oidcTransientData
  cachedOIDCProviders, \* Operation.cachedOIDCProviders (set of provider ids)
  accepted,         \* history: <<continue_token, interact_ref, txn, n>> of the n-th successful continuation
  resp,             \* the response to the last request
  obs,              \* the last request and what its handler did with it
  workers,          \* continuation requests in flight on concurrent workers
  config,           \* what New was given: Config.DisableHTTPSigVerify, Config.StartupTimeout
  storeUp,          \* whether the backing store of transactions and tokens answers
  clock,            \* the time, and expires_at of every token issued while it is tracked
  cachedOIDCProvLock, \* Operation.cachedOIDCProvLock: the readers and the writer holding it
  provStores,       \* history: how often each provider's cache entry was written
  getters           \* getProvider calls in flight on concurrent workers

\* What the requests of the sequential specification leave alone.
aside == <<config, storeUp, clock, cachedOIDCProvLock, provStores, getters>>

vars == <<txns, created, tokens, transientStore, cachedOIDCProviders,
          accepted, resp, obs, workers,
          config, storeUp, clock, cachedOIDCProvLock, provStores, getters>>

\* ------------------------------------------------------------- data model
TxnIds == 1 .. MaxTxn
\* The client instance's key, a key that is not the client's, and no key.
ClientKey == "k1"
OtherKey == "k2"
NoKey == "nokey"
Subs == {"alice", "bob"}
Providers == {"p1"}

\* Access descriptors, one per outcome of the access policy.
Descriptors == {"pre", "consent", "unknown"}

\* Handles are opaque and unique; the model names them by the transaction
\* they are minted for.  0 is the empty string.
FirstContinueToken(t) == 2 * t - 1
RotatedContinueToken(t) == 2 * t
InteractRefOf(t) == t
TokenValueOf(t) == t
ContinueTokens == 1 .. (2 * MaxTxn)
InteractRefs == 1 .. MaxTxn
TokenValues == 1 .. MaxTxn

NoTxn ==
  [state |-> "none", key |-> NoKey, ctok |-> 0, iref |-> 0,
   requested |-> {}, authorized |-> {}, pending |-> {}, subject |-> ""]

NoToken == [state |-> "none", txn |-> 0, access |-> {}, key |-> NoKey]

NoRecord == [provider |-> "", txnID |-> 0]

\* ---------------------------------------------------------------- strings
\* A header value is a sequence of symbols: a space, or a word that holds
\* no space ("GNAP", "Bearer", a token value).
SP == " "

RECURSIVE TrimLeft(_)
TrimLeft(s) ==
  IF s # <<>> /\ Head(s) = SP THEN TrimLeft(Tail(s)) ELSE s

RECURSIVE TrimRight(_)
TrimRight(s) ==
  IF s # <<>> /\ s[Len(s)] = SP THEN TrimRight(SubSeq(s, 1, Len(s) - 1)) ELSE s

\* strings.Trim(s, " ")
Trim(s) == TrimRight(TrimLeft(s))

RECURSIVE SplitFrom(_, _, _, _)
SplitFrom(s, i, cur, acc) ==
  IF i > Len(s) THEN Append(acc, cur)
  ELSE IF s[i] = SP THEN SplitFrom(s, i + 1, <<>>, Append(acc, cur))
  ELSE SplitFrom(s, i + 1, Append(cur, s[i]), acc)

\* strings.Split(s, " "): the fields between single spaces, empty fields
\* kept; the empty string gives one empty field.
Split(s) == SplitFrom(s, 1, <<>>, <<>>)

\* The string form of a handle, as it travels in a header.
HandleString(h) == IF h = 0 THEN <<>> ELSE <<ToString(h)>>

\* ------------------------------------------------- proof verifier (4.1)
\* The HTTP-signature verifier built from the live request: the request was
\* signed by `signer` (NoKey: unsigned or tampered) and is checked against
\* the declared key.
Verify(signer, key) == key # NoKey /\ signer = key

\* The auth handler's proof check.  New hands Config.DisableHTTPSigVerify to
\* the auth handler as DisableHTTPSig; with it set the handler does not
\* consult the verifier.
ProofOK(signer, key) == config.disableHTTPSig \/ Verify(signer, key)

\* --------------------------------------------------- access policy (4.4)
\* The three-way partition of the requested access.
AccessPolicy(access) ==
  [authorized |-> access \cap {"pre"},
   pending    |-> access \cap {"consent"},
   denied     |-> access \ {"pre", "consent"}]

\* ----------------------------------------------------- auth handler (4.6)
\* What a handler call returns: the error flag, the response object and the
\* stores as the call leaves them.
Denied(kind) ==
  [err |-> TRUE, kind |-> kind, resp |-> [none |-> TRUE],
   txns |-> txns, created |-> created, tokens |-> tokens, accepted |-> accepted]

IssuedToken(t, access, key) ==
  [state |-> "active", txn |-> t, access |-> access, key |-> key]

\* HandleAccessRequest(req, proof_verifier, ""): steps 1 - 5.
HandleAccessRequest(req, signer) ==
  LET p == AccessPolicy(req.access)
      t == created + 1
  IN
  IF req.key = NoKey \/ ~ProofOK(signer, req.key) THEN Denied("proof")
  ELSE IF p.denied # {} THEN Denied("policy")
  ELSE IF ~storeUp THEN Denied("store")
  ELSE IF p.pending = {} THEN
    [err |-> FALSE, kind |-> "",
     resp |-> [access_token |-> {TokenValueOf(t)}, continue |-> 0, interact |-> 0,
               subject |-> ""],
     txns |-> [txns EXCEPT ![t] =
                 [state |-> "issued", key |-> req.key, ctok |-> 0, iref |-> 0,
                  requested |-> req.access, authorized |-> p.authorized,
                  pending |-> {}, subject |-> ""]],
     created |-> t,
     tokens |-> [tokens EXCEPT ![TokenValueOf(t)] = IssuedToken(t, p.authorized, req.key)],
     accepted |-> accepted]
  ELSE
    [err |-> FALSE, kind |-> "",
     resp |-> [access_token |-> {}, continue |-> FirstContinueToken(t), interact |-> t,
               subject |-> ""],
     txns |-> [txns EXCEPT ![t] =
                 [state |-> "awaiting_interaction", key |-> req.key,
                  ctok |-> FirstContinueToken(t), iref |-> 0,
                  requested |-> req.access, authorized |-> p.authorized,
                  pending |-> p.pending, subject |-> ""]],
     created |-> t,
     tokens |-> tokens,
     accepted |-> accepted]

\* Whether a call of HandleAccessRequest needs a fresh transaction.
CreatesTxn(req, signer) ==
  /\ req.key # NoKey
  /\ ProofOK(signer, req.key)
  /\ AccessPolicy(req.access).denied = {}

\* by_continue_token: the live transactions the token names (step 1).
ByContinueToken(token) ==
  {t \in TxnIds : /\ txns[t].state \notin {"none", "expired"}
                  /\ txns[t].ctok # 0
                  /\ token = HandleString(txns[t].ctok)}

\* HandleContinueRequest, step 1: what the lookup reads.
ContinueLookup(token) ==
  IF ~storeUp \/ ByContinueToken(token) = {} THEN [found |-> FALSE, id |-> 0, txn |-> NoTxn]
  ELSE LET t == CHOOSE x \in ByContinueToken(token) : TRUE
       IN [found |-> TRUE, id |-> t, txn |-> txns[t]]

\* The continuation that does not compare the interact_ref.
ContinueCommit_NoRefCheck(snap, req, signer) ==
  IF ~snap.found THEN Denied("unknown_handle")
  ELSE IF ~ProofOK(signer, snap.txn.key) THEN Denied("proof")
  ELSE IF snap.txn.state # "ready_to_continue" THEN Denied("wrong_state")
  ELSE IF txns[snap.id] # snap.txn THEN Denied("update_conflict")
  ELSE
    LET t == snap.id IN
    [err |-> FALSE, kind |-> "",
     resp |-> [access_token |-> {TokenValueOf(t)}, continue |-> RotatedContinueToken(t),
               interact |-> 0, subject |-> snap.txn.subject],
     txns |-> [txns EXCEPT ![t].state = "issued",
                           ![t].ctok = RotatedContinueToken(t),
                           ![t].iref = 0],
     created |-> created,
     tokens |-> [tokens EXCEPT ![TokenValueOf(t)] =
                   IssuedToken(t, snap.txn.authorized, snap.txn.key)],
     accepted |-> accepted \cup {<<snap.txn.ctok, req.interact_ref, t,
                                   Cardinality(accepted) + 1>>}]

\* The continuation that issues the tokens and never writes the transaction back.
ContinueCommit_NoUpdate(snap, req, signer) ==
  IF ~snap.found THEN Denied("unknown_handle")
  ELSE IF ~ProofOK(signer, snap.txn.key) THEN Denied("proof")
  ELSE IF req.interact_ref = 0 \/ req.interact_ref # snap.txn.iref THEN Denied("interact_ref")
  ELSE IF snap.txn.state # "ready_to_continue" THEN Denied("wrong_state")
  ELSE
    LET t == snap.id IN
    [err |-> FALSE, kind |-> "",
     resp |-> [access_token |-> {TokenValueOf(t)}, continue |-> RotatedContinueToken(t),
               interact |-> 0, subject |-> snap.txn.subject],
     txns |-> txns,
     created |-> created,
     tokens |-> [tokens EXCEPT ![TokenValueOf(t)] =
                   IssuedToken(t, snap.txn.authorized, snap.txn.key)],
     accepted |-> accepted \cup {<<snap.txn.ctok, req.interact_ref, t,
                                   Cardinality(accepted) + 1>>}]

\* The continuation whose update overwrites whatever the store holds.
ContinueCommit_BlindWrite(snap, req, signer) ==
  IF ~snap.found THEN Denied("unknown_handle")
  ELSE IF ~ProofOK(signer, snap.txn.key) THEN Denied("proof")
  ELSE IF req.interact_ref = 0 \/ req.interact_ref # snap.txn.iref THEN Denied("interact_ref")
  ELSE IF snap.txn.state # "ready_to_continue" THEN Denied("wrong_state")
  ELSE
    LET t == snap.id IN
    [err |-> FALSE, kind |-> "",
     resp |-> [access_token |-> {TokenValueOf(t)}, continue |-> RotatedContinueToken(t),
               interact |-> 0, subject |-> snap.txn.subject],
     txns |-> [txns EXCEPT ![t].state = "issued",
                           ![t].ctok = RotatedContinueToken(t),
                           ![t].iref = 0],
     created |-> created,
     tokens |-> [tokens EXCEPT ![TokenValueOf(t)] =
                   IssuedToken(t, snap.txn.authorized, snap.txn.key)],
     accepted |-> accepted \cup {<<snap.txn.ctok, req.interact_ref, t,
                                   Cardinality(accepted) + 1>>}]

\* HandleContinueRequest, steps 2 - 5 on the transaction read in step 1.
\* The store's update is a compare-and-swap on the record read (section 5).
ContinueCommit(snap, req, signer) ==
  IF ~snap.found THEN Denied("unknown_handle")
  ELSE IF ~ProofOK(signer, snap.txn.key) THEN Denied("proof")
  ELSE IF req.interact_ref = 0 \/ req.interact_ref # snap.txn.iref THEN Denied("interact_ref")
  ELSE IF snap.txn.state # "ready_to_continue" THEN Denied("wrong_state")
  ELSE IF txns[snap.id] # snap.txn THEN Denied("update_conflict")
  ELSE
    LET t == snap.id IN
    [err |-> FALSE, kind |-> "",
     resp |-> [access_token |-> {TokenValueOf(t)}, continue |-> RotatedContinueToken(t),
               interact |-> 0, subject |-> snap.txn.subject],
     txns |-> [txns EXCEPT ![t].state = "issued",
                           ![t].ctok = RotatedContinueToken(t),
                           ![t].iref = 0],
     created |-> created,
     tokens |-> [tokens EXCEPT ![TokenValueOf(t)] =
                   IssuedToken(t, snap.txn.authorized, snap.txn.key)],
     accepted |-> accepted \cup {<<snap.txn.ctok, req.interact_ref, t,
                                   Cardinality(accepted) + 1>>}]

\* HandleContinueRequest(req, continue_token, proof_verifier) as one call.
HandleContinueRequest(req, token, signer) ==
  ContinueCommit(ContinueLookup(token), req, signer)

TokenAt(v) == IF v \in TokenValues THEN tokens[v] ELSE NoToken

\* HandleIntrospection(req, proof_verifier): steps 1 - 4.
HandleIntrospection(req, signer) ==
  IF ~ProofOK(signer, req.rsKey) THEN Denied("proof")
  ELSE IF ~storeUp THEN Denied("store")
  ELSE
    LET tok == TokenAt(req.access_token)
        active == /\ tok.state = "active"
                  /\ (req.access.present => req.access.set \subseteq tok.access)
    IN [err |-> FALSE, kind |-> "",
        resp |-> IF active
                 THEN [active |-> TRUE, access |-> tok.access, key |-> tok.key,
                       subject_data |-> txns[tok.txn].subject]
                 ELSE [active |-> FALSE, access |-> {}, key |-> NoKey, subject_data |-> ""],
        txns |-> txns, created |-> created, tokens |-> tokens, accepted |-> accepted]

\* ------------------------------------------------ interaction handler (4.5)
\* The completion that leaves pending_access as it is.
CompleteInteraction_KeepPending(txnID, sub) ==
  IF ~storeUp
  THEN [err |-> TRUE, kind |-> "store", interactRef |-> 0, txns |-> txns]
  ELSE IF txnID \notin TxnIds \/ txns[txnID].state = "none"
  THEN [err |-> TRUE, kind |-> "unknown_txn", interactRef |-> 0, txns |-> txns]
  ELSE IF txns[txnID].state = "expired"
  THEN [err |-> TRUE, kind |-> "interaction_expired", interactRef |-> 0, txns |-> txns]
  ELSE IF txns[txnID].state # "awaiting_interaction"
  THEN [err |-> TRUE, kind |-> "wrong_state", interactRef |-> 0, txns |-> txns]
  ELSE
    [err |-> FALSE, kind |-> "", interactRef |-> InteractRefOf(txnID),
     txns |-> [txns EXCEPT ![txnID].state = "ready_to_continue",
                           ![txnID].subject = sub,
                           ![txnID].iref = InteractRefOf(txnID)]]

\* CompleteInteraction(txn_id, consent_result).  The consent result the
\* callback passes carries subject data only, so the consent covers all of
\* pending_access.
CompleteInteraction(txnID, sub) ==
  IF ~storeUp
  THEN [err |-> TRUE, kind |-> "store", interactRef |-> 0, txns |-> txns]
  ELSE IF txnID \notin TxnIds \/ txns[txnID].state = "none"
  THEN [err |-> TRUE, kind |-> "unknown_txn", interactRef |-> 0, txns |-> txns]
  ELSE IF txns[txnID].state = "expired"
  THEN [err |-> TRUE, kind |-> "interaction_expired", interactRef |-> 0, txns |-> txns]
  ELSE IF txns[txnID].state # "awaiting_interaction"
  THEN [err |-> TRUE, kind |-> "wrong_state", interactRef |-> 0, txns |-> txns]
  ELSE
    [err |-> FALSE, kind |-> "", interactRef |-> InteractRefOf(txnID),
     txns |-> [txns EXCEPT ![txnID].state = "ready_to_continue",
                           ![txnID].subject = sub,
                           ![txnID].authorized = @ \cup txns[txnID].pending,
                           ![txnID].pending = {},
                           ![txnID].iref = InteractRefOf(txnID)]]

\* ------------------------------------------------------- requests (inputs)
\* Who signed the request: the client's key, or a key that is not the
\* client's (a tampered or foreign signature).
Signers == {ClientKey, OtherKey}
NoRef == [t |-> "absent", v |-> 0]

\* POST /gnap/auth bodies: unreadable, not JSON, or a JSON object whose
\* access_token is an array of one TokenRequest.
BadAuthBodies ==
  {[readable |-> FALSE, json |-> "none", form |-> "array", key |-> NoKey, access |-> {}],
   [readable |-> TRUE, json |-> "garbage", form |-> "array", key |-> NoKey, access |-> {}]}
AuthBodies ==
  BadAuthBodies
  \cup {[readable |-> TRUE, json |-> "object", form |-> "array", key |-> NoKey,
         access |-> {"pre"}]}
  \cup [readable : {TRUE}, json : {"object"}, form : {"array"}, key : {ClientKey},
        access : {{"pre"}, {"pre", "consent"}, {"pre", "unknown"}}]
AuthRequests ==
  {[body |-> b, signer |-> ClientKey] : b \in BadAuthBodies}
  \cup {[body |-> b, signer |-> s] : b \in AuthBodies \ BadAuthBodies, s \in Signers}

\* Authorization header values of POST /gnap/continue: the well-formed
\* ones and the others.
PresentedTokens == 1 .. (2 * MaxTxn)
GoodHeaders == {<<"GNAP", SP, ToString(c)>> : c \in PresentedTokens}
OtherHeaders ==
  {<<>>, <<"GNAP">>, <<"Bearer", SP, ToString(1)>>, <<"GNAP", ToString(1)>>}
\* Spaces around the header value.
PaddedHeaders == {<<SP, "GNAP", SP, ToString(1), SP>>}
\* Two spaces between the scheme and the token.
WideHeaders == {<<"GNAP", SP, SP, ToString(c)>> : c \in PresentedTokens}

\* POST /gnap/continue bodies: unreadable, not JSON, a JSON object whose
\* interact_ref is a number, or one whose interact_ref is absent or a string.
PresentedRefs == 1 .. MaxTxn
BadContinueBodies ==
  {[readable |-> FALSE, json |-> "none", ref |-> NoRef],
   [readable |-> TRUE, json |-> "garbage", ref |-> NoRef],
   [readable |-> TRUE, json |-> "object", ref |-> [t |-> "number", v |-> 0]]}
GoodContinueBodies ==
  {[readable |-> TRUE, json |-> "object", ref |-> NoRef]}
  \cup {[readable |-> TRUE, json |-> "object", ref |-> [t |-> "string", v |-> i]] :
          i \in PresentedRefs}
ContinueRequests ==
  {[header |-> h, body |-> b, signer |-> ClientKey] :
     h \in OtherHeaders,
     b \in BadContinueBodies \cup {[readable |-> TRUE, json |-> "object", ref |-> NoRef]}}
  \cup {[header |-> h, body |-> b, signer |-> ClientKey] :
          h \in GoodHeaders, b \in BadContinueBodies}
  \cup {[header |-> h, body |-> b, signer |-> s] :
          h \in GoodHeaders \cup PaddedHeaders \cup WideHeaders,
          b \in GoodContinueBodies, s \in Signers}

\* POST /gnap/introspect bodies.
PresentedValues == 0 .. MaxTxn
NoAccess == [present |-> FALSE, set |-> {}]
BadIntrospectBodies ==
  {[readable |-> FALSE, json |-> "none", access_token |-> 0, rsKey |-> NoKey, access |-> NoAccess],
   [readable |-> TRUE, json |-> "garbage", access_token |-> 0, rsKey |-> NoKey, access |-> NoAccess]}
SignedIntrospectBodies ==
  {[body |-> b, signer |-> ClientKey] : b \in BadIntrospectBodies}
  \cup {[body |-> [readable |-> TRUE, json |-> "object", access_token |-> v,
                   rsKey |-> ClientKey, access |-> a],
         signer |-> ClientKey] :
          v \in PresentedValues,
          a \in {NoAccess, [present |-> TRUE, set |-> {"pre"}],
                 [present |-> TRUE, set |-> {"consent"}]}}
  \cup {[body |-> [readable |-> TRUE, json |-> "object", access_token |-> v,
                   rsKey |-> k, access |-> NoAccess],
         signer |-> OtherKey] :
          v \in PresentedValues, k \in {ClientKey, NoKey}}
\* Authorization header values of POST /gnap/introspect: every body comes
\* with a GNAP header, and the bodies the resource server signed that name
\* no access come without one and with another scheme as well.
IntrospectHeaders == {<<>>, <<"Bearer", SP, ToString(1)>>, <<"GNAP", SP, ToString(1)>>}
IntrospectRequests ==
  {[header |-> <<"GNAP", SP, ToString(1)>>, body |-> x.body, signer |-> x.signer] :
     x \in SignedIntrospectBodies}
  \cup {[header |-> h, body |-> x.body, signer |-> x.signer] :
          h \in IntrospectHeaders,
          x \in {y \in SignedIntrospectBodies :
                   y.signer = ClientKey /\ y.body.access = NoAccess}}

\* ----------------------------------------------------- HTTP adapter (4.7)
\* A response written without reaching the auth handler.
Reply(status, body) ==
  [status |-> status, body |-> body, called |-> FALSE, herr |-> FALSE,
   hresp |-> [none |-> TRUE],
   txns |-> txns, created |-> created, tokens |-> tokens, accepted |-> accepted]

\* A response written after the auth handler returned h.
ReplyAfter(status, body, h) ==
  [status |-> status, body |-> body, called |-> TRUE, herr |-> h.err,
   hresp |-> h.resp,
   txns |-> h.txns, created |-> h.created, tokens |-> h.tokens, accepted |-> h.accepted]

\* json.Unmarshal(bodyBytes, authRequest)
UnmarshalAuthRequest(b) == b.json = "object" /\ b.form = "array"

authRequestHandler(r) ==
  IF ~r.body.readable
  THEN Reply(StatusInternalServerError, ErrorResponse(errRequestDenied))
  ELSE IF ~UnmarshalAuthRequest(r.body)
  THEN Reply(StatusBadRequest, ErrorResponse(errInvalidRequest))
  ELSE LET h == HandleAccessRequest([key |-> r.body.key, access |-> r.body.access], r.signer)
       IN IF h.err
          THEN ReplyAfter(StatusUnauthorized, ErrorResponse(errRequestDenied), h)
          ELSE ReplyAfter(StatusOK, h.resp, h)

\* json.Unmarshal(bodyBytes, continueRequest)
UnmarshalContinueRequest(b) == b.json = "object" /\ b.ref.t \in {"absent", "string"}

\* The header check without the comparison of the scheme.
HeaderRejected_NoScheme(tokHeader) == Len(tokHeader) < 2

\* len(tokHeader) < 2 || tokHeader[0] != "GNAP"
HeaderRejected(tokHeader) == Len(tokHeader) < 2 \/ tokHeader[1] # <<"GNAP">>

\* The continue handler with the outcome of the handler call ignored.
authContinueHandler_ErrIgnored(r) ==
  LET tokHeader == Split(Trim(r.header)) IN
  IF HeaderRejected(tokHeader)
  THEN Reply(StatusUnauthorized, ErrorResponse(errRequestDenied))
  ELSE IF ~r.body.readable
  THEN Reply(StatusInternalServerError, ErrorResponse(errRequestDenied))
  ELSE IF ~UnmarshalContinueRequest(r.body)
  THEN Reply(StatusBadRequest, ErrorResponse(errInvalidRequest))
  ELSE LET h == HandleContinueRequest([interact_ref |-> r.body.ref.v], tokHeader[2], r.signer)
       IN ReplyAfter(StatusOK, h.resp, h)

\* The continue handler with the decoding error ignored.
authContinueHandler_NoDecodeCheck(r) ==
  LET tokHeader == Split(Trim(r.header)) IN
  IF HeaderRejected(tokHeader)
  THEN Reply(StatusUnauthorized, ErrorResponse(errRequestDenied))
  ELSE IF ~r.body.readable
  THEN Reply(StatusInternalServerError, ErrorResponse(errRequestDenied))
  ELSE LET h == HandleContinueRequest([interact_ref |-> r.body.ref.v], tokHeader[2], r.signer)
       IN IF h.err
          THEN ReplyAfter(StatusUnauthorized, ErrorResponse(errRequestDenied), h)
          ELSE ReplyAfter(StatusOK, h.resp, h)

authContinueHandler(r) ==
  LET tokHeader == Split(Trim(r.header)) IN
  IF HeaderRejected(tokHeader)
  THEN Reply(StatusUnauthorized, ErrorResponse(errRequestDenied))
  ELSE IF ~r.body.readable
  THEN Reply(StatusInternalServerError, ErrorResponse(errRequestDenied))
  ELSE IF ~UnmarshalContinueRequest(r.body)
  THEN Reply(StatusBadRequest, ErrorResponse(errInvalidRequest))
  ELSE LET h == HandleContinueRequest([interact_ref |-> r.body.ref.v], tokHeader[2], r.signer)
       IN IF h.err
          THEN ReplyAfter(StatusUnauthorized, ErrorResponse(errRequestDenied), h)
          ELSE ReplyAfter(StatusOK, h.resp, h)

\* json.Unmarshal(bodyBytes, introspectRequest)
UnmarshalIntrospectRequest(b) == b.json = "object"

\* The introspection that answers an undecodable body as an unreadable one.
introspectHandler_DecodeIs500(r) ==
  IF ~r.body.readable \/ ~UnmarshalIntrospectRequest(r.body)
  THEN Reply(StatusInternalServerError, ErrorResponse(errRequestDenied))
  ELSE LET h == HandleIntrospection(r.body, r.signer)
       IN IF h.err
          THEN ReplyAfter(StatusUnauthorized, ErrorResponse(errRequestDenied), h)
          ELSE ReplyAfter(StatusOK, h.resp, h)

introspectHandler(r) ==
  IF ~r.body.readable
  THEN Reply(StatusInternalServerError, ErrorResponse(errRequestDenied))
  ELSE IF ~UnmarshalIntrospectRequest(r.body)
  THEN Reply(StatusBadRequest, ErrorResponse(errInvalidRequest))
  ELSE LET h == HandleIntrospection(r.body, r.signer)
       IN IF h.err
          THEN ReplyAfter(StatusUnauthorized, ErrorResponse(errRequestDenied), h)
          ELSE ReplyAfter(StatusOK, h.resp, h)

\* writeErrorResponse(rw, status, msg, args...): the status and the
\* formatted message as the body.
writeErrorResponse(status, msg, detail) ==
  [status |-> status, body |-> [msg |-> msg, detail |-> detail]]

\* getProvider(providerID); initOK is whether initOIDCProvider succeeds.
getProvider(providerID, initOK) ==
  IF providerID \in cachedOIDCProviders
  THEN [err |-> FALSE, detail |-> "", cache |-> cachedOIDCProviders]
  ELSE IF providerID \notin Providers
  THEN [err |-> TRUE, detail |-> "provider not supported", cache |-> cachedOIDCProviders]
  ELSE IF ~initOK
  THEN [err |-> TRUE, detail |-> "failed to init oidc provider", cache |-> cachedOIDCProviders]
  ELSE [err |-> FALSE, detail |-> "", cache |-> cachedOIDCProviders \cup {providerID}]

OIDCStates == 1 .. MaxOIDCStates
MintedStates == {s \in OIDCStates : transientStore[s] # NoRecord}
\* uuid.New(): a state never minted before.
FreshState == Cardinality(MintedStates) + 1

LoginRequests ==
  {[provider |-> "", txnID |-> 1, initOK |-> TRUE, putOK |-> TRUE],
   [provider |-> "px", txnID |-> 1, initOK |-> TRUE, putOK |-> TRUE]}
  \cup [provider : {"p1"}, txnID : 0 .. MaxTxn, initOK : BOOLEAN, putOK : BOOLEAN]

LoginReply(w, store, cache) ==
  [status |-> w.status, body |-> w.body, store |-> store, cache |-> cache]

\* The login that redirects whether or not the record was written.
oidcLoginHandler_PutErrIgnored(r) ==
  IF r.provider = ""
  THEN LoginReply(writeErrorResponse(StatusBadRequest, "missing provider", ""),
                  transientStore, cachedOIDCProviders)
  ELSE IF r.txnID = 0
  THEN LoginReply(writeErrorResponse(StatusBadRequest, "missing transaction ID", ""),
                  transientStore, cachedOIDCProviders)
  ELSE LET p == getProvider(r.provider, r.initOK) IN
    IF p.err
    THEN LoginReply(writeErrorResponse(StatusBadRequest, "get provider", p.detail),
                    transientStore, p.cache)
    ELSE IF r.provider \notin Providers
    THEN LoginReply(writeErrorResponse(StatusInternalServerError, "provider not supported",
                                       r.provider),
                    transientStore, p.cache)
    ELSE LoginReply([status |-> StatusFound,
                     body |-> [redirect |-> r.provider, state |-> FreshState]],
                    IF r.putOK
                    THEN [transientStore EXCEPT ![FreshState] =
                            [provider |-> r.provider, txnID |-> r.txnID]]
                    ELSE transientStore,
                    p.cache)

oidcLoginHandler(r) ==
  IF r.provider = ""
  THEN LoginReply(writeErrorResponse(StatusBadRequest, "missing provider", ""),
                  transientStore, cachedOIDCProviders)
  ELSE IF r.txnID = 0
  THEN LoginReply(writeErrorResponse(StatusBadRequest, "missing transaction ID", ""),
                  transientStore, cachedOIDCProviders)
  ELSE LET p == getProvider(r.provider, r.initOK) IN
    IF p.err
    THEN LoginReply(writeErrorResponse(StatusBadRequest, "get provider", p.detail),
                    transientStore, p.cache)
    ELSE IF r.provider \notin Providers
    THEN LoginReply(writeErrorResponse(StatusInternalServerError, "provider not supported",
                                       r.provider),
                    transientStore, p.cache)
    ELSE IF ~r.putOK
    THEN LoginReply(writeErrorResponse(StatusInternalServerError,
                                       "failed to write state data to transient store",
                                       "store"),
                    transientStore, p.cache)
    ELSE LoginReply([status |-> StatusFound,
                     body |-> [redirect |-> r.provider, state |-> FreshState]],
                    [transientStore EXCEPT ![FreshState] =
                       [provider |-> r.provider, txnID |-> r.txnID]],
                    p.cache)

\* What the upstream provider answers during a callback.
OIDCOutcomes ==
  {[step |-> s, sub |-> ""] : s \in {"exchange_fail", "no_id_token", "verify_fail", "claims_fail"}}
  \cup {[step |-> "ok", sub |-> s] : s \in Subs}

\* State MaxOIDCStates + 1 is never minted.
\* `after` is what follows a completed interaction: the client's finish
\* URI parses and the popup template loads ("ok"), or one of them does not.
CallbackRequests ==
  {[state |-> 0, code |-> "c", oidc |-> [step |-> "ok", sub |-> "alice"], initOK |-> TRUE,
    after |-> "ok"],
   [state |-> 1, code |-> "", oidc |-> [step |-> "ok", sub |-> "alice"], initOK |-> TRUE,
    after |-> "ok"]}
  \cup [state : 1 .. (MaxOIDCStates + 1), code : {"c"}, oidc : OIDCOutcomes, initOK : {TRUE},
        after : {"ok"}]
  \cup [state : 1 .. (MaxOIDCStates + 1), code : {"c"},
        oidc : {[step |-> "ok", sub |-> "alice"]}, initOK : {FALSE}, after : {"ok"}]
  \cup [state : OIDCStates, code : {"c"},
        oidc : {[step |-> "ok", sub |-> "alice"]}, initOK : {TRUE},
        after : {"bad_uri", "no_template"}]

\* transientStore.Get(state)
TransientGet(state) ==
  IF state \in OIDCStates /\ transientStore[state] # NoRecord
  THEN [err |-> FALSE, data |-> transientStore[state]]
  ELSE [err |-> TRUE, data |-> NoRecord]

CallbackReply(w, found, exchanged, completed, t, cache) ==
  [status |-> w.status, body |-> w.body, found |-> found, exchanged |-> exchanged,
   completed |-> completed, txns |-> t, cache |-> cache, store |-> transientStore]

\* The callback with the error of CompleteInteraction ignored.
oidcCallbackHandler_ErrIgnored(r) ==
  IF r.state = 0
  THEN CallbackReply(writeErrorResponse(StatusBadRequest, "missing state", ""),
                     FALSE, FALSE, FALSE, txns, cachedOIDCProviders)
  ELSE IF r.code = ""
  THEN CallbackReply(writeErrorResponse(StatusBadRequest, "missing code", ""),
                     FALSE, FALSE, FALSE, txns, cachedOIDCProviders)
  ELSE LET g == TransientGet(r.state) IN
    IF g.err
    THEN CallbackReply(writeErrorResponse(StatusBadRequest,
                                          "failed to get state data to transient store",
                                          "data not found"),
                       FALSE, FALSE, FALSE, txns, cachedOIDCProviders)
    ELSE LET p == getProvider(g.data.provider, r.initOK) IN
      IF p.err
      THEN CallbackReply(writeErrorResponse(StatusBadRequest, "get provider", p.detail),
                         TRUE, FALSE, FALSE, txns, p.cache)
      ELSE IF r.oidc.step = "exchange_fail"
      THEN CallbackReply(writeErrorResponse(StatusBadGateway,
                                            "failed to exchange oauth2 code for token", "oauth2"),
                         TRUE, TRUE, FALSE, txns, p.cache)
      ELSE IF r.oidc.step = "no_id_token"
      THEN CallbackReply(writeErrorResponse(StatusBadGateway, "missing id_token", ""),
                         TRUE, TRUE, FALSE, txns, p.cache)
      ELSE IF r.oidc.step = "verify_fail"
      THEN CallbackReply(writeErrorResponse(StatusForbidden, "failed to verify id_token", "oidc"),
                         TRUE, TRUE, FALSE, txns, p.cache)
      ELSE IF r.oidc.step = "claims_fail"
      THEN CallbackReply(writeErrorResponse(StatusInternalServerError,
                                            "failed to extract claims from id_token", "oidc"),
                         TRUE, TRUE, FALSE, txns, p.cache)
      ELSE LET c == CompleteInteraction(g.data.txnID, r.oidc.sub) IN
        IF r.after = "bad_uri"
        THEN CallbackReply(writeErrorResponse(StatusBadRequest,
                                              "client provided invalid redirect URI", "url"),
                           TRUE, TRUE, TRUE, c.txns, p.cache)
        ELSE IF r.after = "no_template"
        THEN CallbackReply(writeErrorResponse(StatusInternalServerError,
                                              "failed to parse template", "template"),
                           TRUE, TRUE, TRUE, c.txns, p.cache)
        ELSE
        CallbackReply([status |-> StatusOK,
                            body |-> [interact_ref |-> c.interactRef,
                                 hash |-> <<"hash", c.interactRef>>]],
                      TRUE, TRUE, TRUE, c.txns, p.cache)

\* The callback that does not verify the id_token.
oidcCallbackHandler_NoVerify(r) ==
  IF r.state = 0
  THEN CallbackReply(writeErrorResponse(StatusBadRequest, "missing state", ""),
                     FALSE, FALSE, FALSE, txns, cachedOIDCProviders)
  ELSE IF r.code = ""
  THEN CallbackReply(writeErrorResponse(StatusBadRequest, "missing code", ""),
                     FALSE, FALSE, FALSE, txns, cachedOIDCProviders)
  ELSE LET g == TransientGet(r.state) IN
    IF g.err
    THEN CallbackReply(writeErrorResponse(StatusBadRequest,
                                          "failed to get state data to transient store",
                                          "data not found"),
                       FALSE, FALSE, FALSE, txns, cachedOIDCProviders)
    ELSE LET p == getProvider(g.data.provider, r.initOK) IN
      IF p.err
      THEN CallbackReply(writeErrorResponse(StatusBadRequest, "get provider", p.detail),
                         TRUE, FALSE, FALSE, txns, p.cache)
      ELSE IF r.oidc.step = "exchange_fail"
      THEN CallbackReply(writeErrorResponse(StatusBadGateway,
                                            "failed to exchange oauth2 code for token", "oauth2"),
                         TRUE, TRUE, FALSE, txns, p.cache)
      ELSE IF r.oidc.step = "no_id_token"
      THEN CallbackReply(writeErrorResponse(StatusBadGateway, "missing id_token", ""),
                         TRUE, TRUE, FALSE, txns, p.cache)
      ELSE IF r.oidc.step = "claims_fail"
      THEN CallbackReply(writeErrorResponse(StatusInternalServerError,
                                            "failed to extract claims from id_token", "oidc"),
                         TRUE, TRUE, FALSE, txns, p.cache)
      ELSE LET c == CompleteInteraction(g.data.txnID, r.oidc.sub) IN
        IF c.err
        THEN CallbackReply(writeErrorResponse(StatusInternalServerError,
                                              "failed to complete GNAP interaction", c.kind),
                           TRUE, TRUE, TRUE, c.txns, p.cache)
        ELSE IF r.after = "bad_uri"
        THEN CallbackReply(writeErrorResponse(StatusBadRequest,
                                              "client provided invalid redirect URI", "url"),
                           TRUE, TRUE, TRUE, c.txns, p.cache)
        ELSE IF r.after = "no_template"
        THEN CallbackReply(writeErrorResponse(StatusInternalServerError,
                                              "failed to parse template", "template"),
                           TRUE, TRUE, TRUE, c.txns, p.cache)
        ELSE CallbackReply([status |-> StatusOK,
                            body |-> [interact_ref |-> c.interactRef,
                                      hash |-> <<"hash", c.interactRef>>]],
                           TRUE, TRUE, TRUE, c.txns, p.cache)

oidcCallbackHandler(r) ==
  IF r.state = 0
  THEN CallbackReply(writeErrorResponse(StatusBadRequest, "missing state", ""),
                     FALSE, FALSE, FALSE, txns, cachedOIDCProviders)
  ELSE IF r.code = ""
  THEN CallbackReply(writeErrorResponse(StatusBadRequest, "missing code", ""),
                     FALSE, FALSE, FALSE, txns, cachedOIDCProviders)
  ELSE LET g == TransientGet(r.state) IN
    IF g.err
    THEN CallbackReply(writeErrorResponse(StatusBadRequest,
                                          "failed to get state data to transient store",
                                          "data not found"),
                       FALSE, FALSE, FALSE, txns, cachedOIDCProviders)
    ELSE LET p == getProvider(g.data.provider, r.initOK) IN
      IF p.err
      THEN CallbackReply(writeErrorResponse(StatusBadRequest, "get provider", p.detail),
                         TRUE, FALSE, FALSE, txns, p.cache)
      ELSE IF r.oidc.step = "exchange_fail"
      THEN CallbackReply(writeErrorResponse(StatusBadGateway,
                                            "failed to exchange oauth2 code for token", "oauth2"),
                         TRUE, TRUE, FALSE, txns, p.cache)
      ELSE IF r.oidc.step = "no_id_token"
      THEN CallbackReply(writeErrorResponse(StatusBadGateway, "missing id_token", ""),
                         TRUE, TRUE, FALSE, txns, p.cache)
      ELSE IF r.oidc.step = "verify_fail"
      THEN CallbackReply(writeErrorResponse(StatusForbidden, "failed to verify id_token", "oidc"),
                         TRUE, TRUE, FALSE, txns, p.cache)
      ELSE IF r.oidc.step = "claims_fail"
      THEN CallbackReply(writeErrorResponse(StatusInternalServerError,
                                            "failed to extract claims from id_token", "oidc"),
                         TRUE, TRUE, FALSE, txns, p.cache)
      ELSE LET c == CompleteInteraction(g.data.txnID, r.oidc.sub) IN
        IF c.err
        THEN CallbackReply(writeErrorResponse(StatusInternalServerError,
                                              "failed to complete GNAP interaction", c.kind),
                           TRUE, TRUE, TRUE, c.txns, p.cache)
        ELSE IF r.after = "bad_uri"
        THEN CallbackReply(writeErrorResponse(StatusBadRequest,
                                              "client provided invalid redirect URI", "url"),
                           TRUE, TRUE, TRUE, c.txns, p.cache)
        ELSE IF r.after = "no_template"
        THEN CallbackReply(writeErrorResponse(StatusInternalServerError,
                                              "failed to parse template", "template"),
                           TRUE, TRUE, TRUE, c.txns, p.cache)
        ELSE CallbackReply([status |-> StatusOK,
                            body |-> [interact_ref |-> c.interactRef,
                                      hash |-> <<"hash", c.interactRef>>]],
                           TRUE, TRUE, TRUE, c.txns, p.cache)

\* ------------------------------------------------------------------ state
Workers == {"w1", "w2"}
Idle == [pc |-> "idle"]

\* The stores and the history as New leaves them.
InitStores ==
  /\ txns = [t \in TxnIds |-> NoTxn]
  /\ created = 0
  /\ tokens = [v \in TokenValues |-> NoToken]
  /\ transientStore = [s \in OIDCStates |-> NoRecord]
  /\ cachedOIDCProviders = {}
  /\ accepted = {}
  /\ resp = [ep |-> "none", status |-> 0, body |-> [none |-> TRUE]]
  /\ obs = [ep |-> "none"]
  /\ workers = [w \in Workers |-> Idle]
  /\ storeUp = TRUE
  /\ clock = [now |-> 0, expiresAt |-> [v \in TokenValues |-> 0]]
  /\ cachedOIDCProvLock = [readers |-> {}, writer |-> "none"]
  /\ provStores = [p \in Providers |-> 0]
  /\ getters = [w \in Workers |-> Idle]

\* The server built with the default configuration: signatures are
\* verified and the provider connection is not retried.
Init ==
  /\ InitStores
  /\ config = [disableHTTPSig |-> FALSE, timeout |-> 0]

\* A header value of the form `GNAP <token>`: the scheme GNAP, a space and
\* a credential after it (spaces around the value do not count).
IsGNAPForm(h) ==
  \E i \in 1 .. Len(h) :
    /\ \A k \in 1 .. (i - 1) : h[k] = SP
    /\ h[i] = "GNAP"
    /\ i + 1 <= Len(h)
    /\ h[i + 1] = SP
    /\ \E j \in (i + 2) .. Len(h) : h[j] # SP

\* Whether the presented continue token was accepted by an earlier continuation.
Replayed(token) == \E a \in accepted : HandleString(a[1]) = token

\* The token the adapter hands to HandleContinueRequest.
TokenOf(header) == Split(Trim(header))[2]

\* The grant requests the transaction store has room for: those that need
\* no fresh transaction, and all of them while fewer than MaxTxn exist.
AuthRequestsNow ==
  {r \in AuthRequests :
     (/\ r.body.readable
      /\ UnmarshalAuthRequest(r.body)
      /\ CreatesTxn([key |-> r.body.key, access |-> r.body.access], r.signer))
       => created < MaxTxn}

\* ---------------------------------------------------------------- actions
\* POST /gnap/auth
AuthRequest ==
  \E r \in AuthRequestsNow :
    \E out \in {authRequestHandler(r)} :
    /\ txns' = out.txns
    /\ created' = out.created
    /\ tokens' = out.tokens
    /\ accepted' = out.accepted
    /\ resp' = [ep |-> "auth", status |-> out.status, body |-> out.body]
    /\ obs' = [ep |-> "auth", called |-> out.called, herr |-> out.herr,
               badjson |-> r.body.readable /\ ~UnmarshalAuthRequest(r.body),
               down |-> ~storeUp,
               signed |-> Verify(r.signer, r.body.key)]
    /\ UNCHANGED aside
    /\ UNCHANGED <<transientStore, cachedOIDCProviders, workers>>

\* POST /gnap/continue, handled in one piece
AuthContinue ==
  \E r \in ContinueRequests :
    \E out \in {authContinueHandler(r)} :
    /\ txns' = out.txns
    /\ created' = out.created
    /\ tokens' = out.tokens
    /\ accepted' = out.accepted
    /\ resp' = [ep |-> "continue", status |-> out.status, body |-> out.body]
    /\ obs' = [ep |-> "continue", called |-> out.called, herr |-> out.herr,
               form |-> IsGNAPForm(r.header),
               badjson |-> r.body.readable /\ ~UnmarshalContinueRequest(r.body),
               replay |-> out.called /\ Replayed(TokenOf(r.header)),
               refUsed |-> \E a \in accepted : a[2] = r.body.ref.v,
               changed |-> out.txns # txns \/ out.tokens # tokens]
    /\ UNCHANGED aside
    /\ UNCHANGED <<transientStore, cachedOIDCProviders, workers>>

\* POST /gnap/introspect
Introspect ==
  \E r \in IntrospectRequests :
    \E out \in {introspectHandler(r)} :
    /\ resp' = [ep |-> "introspect", status |-> out.status, body |-> out.body]
    /\ obs' = [ep |-> "introspect", called |-> out.called, herr |-> out.herr,
               badjson |-> r.body.readable /\ ~UnmarshalIntrospectRequest(r.body),
               down |-> ~storeUp,
               form |-> IsGNAPForm(r.header),
               signed |-> Verify(r.signer, r.body.rsKey)]
    /\ UNCHANGED aside
    /\ UNCHANGED <<txns, created, tokens, accepted, transientStore, cachedOIDCProviders,
                   workers>>

\* GET /oidc/login
OIDCLogin ==
  \E r \in LoginRequests :
    \E out \in {oidcLoginHandler(r)} :
    /\ out.status = StatusFound => Cardinality(MintedStates) < MaxOIDCStates
    /\ transientStore' = out.store
    /\ cachedOIDCProviders' = out.cache
    /\ resp' = [ep |-> "login", status |-> out.status, body |-> out.body]
    /\ obs' = [ep |-> "login"]
    /\ UNCHANGED aside
    /\ UNCHANGED <<txns, created, tokens, accepted, workers>>

\* GET /oidc/callback
OIDCCallback ==
  \E r \in CallbackRequests :
    \E out \in {oidcCallbackHandler(r)} :
    /\ txns' = out.txns
    /\ transientStore' = out.store
    /\ cachedOIDCProviders' = out.cache
    /\ resp' = [ep |-> "callback", status |-> out.status, body |-> out.body]
    /\ obs' = [ep |-> "callback", found |-> out.found,
               exchanged |-> out.exchanged, completed |-> out.completed,
               state |-> r.state]
    /\ UNCHANGED aside
    /\ UNCHANGED <<created, tokens, accepted, workers>>

\* The TTL of a transaction that is not yet issued runs out.
ExpireTxn ==
  \E t \in TxnIds :
    /\ txns[t].state \in {"awaiting_interaction", "ready_to_continue"}
    /\ txns' = [txns EXCEPT ![t].state = "expired"]
    /\ UNCHANGED aside
    /\ UNCHANGED <<created, tokens, transientStore, cachedOIDCProviders, accepted,
                   resp, obs, workers>>

\* An access token reaches expires_at.
ExpireToken ==
  \E v \in TokenValues :
    /\ tokens[v].state = "active"
    /\ tokens' = [tokens EXCEPT ![v].state = "expired"]
    /\ UNCHANGED aside
    /\ UNCHANGED <<txns, created, transientStore, cachedOIDCProviders, accepted,
                   resp, obs, workers>>

Next ==
  \/ AuthRequest
  \/ AuthContinue
  \/ Introspect
  \/ OIDCLogin
  \/ OIDCCallback
  \/ ExpireTxn
  \/ ExpireToken

Spec == Init /\ [][Next]_vars

\* The server built with Config.DisableHTTPSigVerify set.
InitSigOff ==
  /\ InitStores
  /\ config = [disableHTTPSig |-> TRUE, timeout |-> 0]

SpecSigOff == InitSigOff /\ [][Next]_vars

\* ------------------------------------------------------------------ clock
\* expires_in of an issued token, in ticks of the clock.
ExpiresIn == 2

\* A grant request of the client at the current time; a token it issues
\* expires ExpiresIn later.
ClockGrant ==
  \E r \in {x \in AuthRequestsNow :
               /\ x.body.readable /\ UnmarshalAuthRequest(x.body)
               /\ x.body.key = ClientKey /\ x.signer = ClientKey} :
    \E out \in {authRequestHandler(r)} :
    /\ txns' = out.txns
    /\ created' = out.created
    /\ tokens' = out.tokens
    /\ accepted' = out.accepted
    /\ clock' = [clock EXCEPT !.expiresAt =
                   [v \in TokenValues |->
                      IF tokens[v].state = "none" /\ out.tokens[v].state = "active"
                      THEN clock.now + ExpiresIn
                      ELSE clock.expiresAt[v]]]
    /\ resp' = [ep |-> "auth", status |-> out.status, body |-> out.body]
    /\ obs' = [ep |-> "auth", at |-> clock.now]
    /\ UNCHANGED <<transientStore, cachedOIDCProviders, workers, config, storeUp,
                   cachedOIDCProvLock, provStores, getters>>

\* The clock advances; the token store's get finds no token whose
\* expires_at the clock has reached (now >= expires_at).
Tick ==
  /\ clock.now < MaxTime
  /\ clock' = [clock EXCEPT !.now = clock.now + 1]
  /\ tokens' = [v \in TokenValues |->
                  IF tokens[v].state = "active" /\ clock.now + 1 >= clock.expiresAt[v]
                  THEN [tokens[v] EXCEPT !.state = "expired"]
                  ELSE tokens[v]]
  /\ UNCHANGED <<txns, created, transientStore, cachedOIDCProviders, accepted, resp, obs,
                 workers, config, storeUp, cachedOIDCProvLock, provStores, getters>>

\* The resource server introspects a token value at the current time.
ClockIntrospect ==
  \E r \in {x \in IntrospectRequests :
               /\ x.body.readable /\ UnmarshalIntrospectRequest(x.body)
               /\ x.body.rsKey = ClientKey /\ x.signer = ClientKey
               /\ ~x.body.access.present /\ IsGNAPForm(x.header)} :
    \E out \in {introspectHandler(r)} :
    /\ resp' = [ep |-> "introspect", status |-> out.status, body |-> out.body]
    /\ obs' = [ep |-> "introspect", at |-> clock.now, value |-> r.body.access_token]
    /\ UNCHANGED aside
    /\ UNCHANGED <<txns, created, tokens, accepted, transientStore, cachedOIDCProviders,
                   workers>>

NextClock ==
  \/ ClockGrant
  \/ Tick
  \/ ClockIntrospect

SpecClock == Init /\ [][NextClock]_vars

\* ------------------------------------------------ concurrent getProvider
\* getProvider on two goroutines, statement by statement.  A getter holds
\* the provider id it was called with and the number of retries made.
ProviderIDs == Providers \cup {"px"}
Getting(pc, id, tries, ok) == [pc |-> pc, id |-> id, tries |-> tries, ok |-> ok]
\* The getters inside initOIDCProvider or past it with a provider to store.
Initializing(w) == getters[w].pc \in {"init", "hung", "wlock", "store"}

InitProv ==
  /\ InitStores
  /\ config \in [disableHTTPSig : {FALSE}, timeout : 0 .. MaxStartupTimeout]

\* A handler calls getProvider(providerID).
GCall(w) ==
  /\ getters[w].pc = "idle"
  /\ \E id \in ProviderIDs :
       getters' = [getters EXCEPT ![w] = Getting("rlock", id, 0, FALSE)]
  /\ UNCHANGED <<cachedOIDCProviders, cachedOIDCProvLock, provStores>>

\* cachedOIDCProvLock.RLock()
GRLock(w) ==
  /\ getters[w].pc = "rlock"
  /\ cachedOIDCProvLock.writer = "none"
  /\ cachedOIDCProvLock' = [cachedOIDCProvLock EXCEPT !.readers = @ \cup {w}]
  /\ getters' = [getters EXCEPT ![w].pc = "lookup"]
  /\ UNCHANGED <<cachedOIDCProviders, provStores>>

\* The lookup that leaves the read lock held.
GLookup_KeepsRLock(w) ==
  /\ getters[w].pc = "lookup"
  /\ getters' = [getters EXCEPT ![w] =
       IF getters[w].id \in cachedOIDCProviders
       THEN Getting("done", getters[w].id, 0, TRUE)
       ELSE IF getters[w].id \notin Providers
       THEN Getting("done", getters[w].id, 0, FALSE)
       ELSE Getting("init", getters[w].id, 0, FALSE)]
  /\ UNCHANGED <<cachedOIDCProviders, cachedOIDCProvLock, provStores>>

\* The map lookup, RUnlock(), and the returns for a cached and for an
\* unconfigured provider.
GLookup(w) ==
  /\ getters[w].pc = "lookup"
  /\ cachedOIDCProvLock' = [cachedOIDCProvLock EXCEPT !.readers = @ \ {w}]
  /\ getters' = [getters EXCEPT ![w] =
       IF getters[w].id \in cachedOIDCProviders
       THEN Getting("done", getters[w].id, 0, TRUE)
       ELSE IF getters[w].id \notin Providers
       THEN Getting("done", getters[w].id, 0, FALSE)
       ELSE Getting("init", getters[w].id, 0, FALSE)]
  /\ UNCHANGED <<cachedOIDCProviders, provStores>>

\* The attempt after which a provider that failed to initialize is stored
\* all the same.
GAttempt_StoresOnError(w) ==
  /\ getters[w].pc = "init"
  /\ \E upstream \in {"ok", "error", "silent"} :
       getters' = [getters EXCEPT ![w] =
         IF upstream = "ok" THEN Getting("wlock", getters[w].id, getters[w].tries, TRUE)
         ELSE IF upstream = "silent"
         THEN Getting("hung", getters[w].id, getters[w].tries, FALSE)
         ELSE IF getters[w].tries < config.timeout
         THEN Getting("init", getters[w].id, getters[w].tries + 1, FALSE)
         ELSE Getting("wlock", getters[w].id, getters[w].tries, FALSE)]
  /\ UNCHANGED <<cachedOIDCProviders, cachedOIDCProvLock, provStores>>

\* initOIDCProvider: one attempt of oidc.NewProvider under
\* backoff.WithMaxRetries(NewConstantBackOff(time.Second), o.timeout).  The
\* upstream answers, fails, or never answers: the http.Client has no
\* timeout and the context no deadline.
GAttempt(w) ==
  /\ getters[w].pc = "init"
  /\ \E upstream \in {"ok", "error", "silent"} :
       getters' = [getters EXCEPT ![w] =
         IF upstream = "ok" THEN Getting("wlock", getters[w].id, getters[w].tries, TRUE)
         ELSE IF upstream = "silent"
         THEN Getting("hung", getters[w].id, getters[w].tries, FALSE)
         ELSE IF getters[w].tries < config.timeout
         THEN Getting("init", getters[w].id, getters[w].tries + 1, FALSE)
         ELSE Getting("done", getters[w].id, getters[w].tries, FALSE)]
  /\ UNCHANGED <<cachedOIDCProviders, cachedOIDCProvLock, provStores>>

\* cachedOIDCProvLock.Lock()
GWLock(w) ==
  /\ getters[w].pc = "wlock"
  /\ cachedOIDCProvLock = [readers |-> {}, writer |-> "none"]
  /\ cachedOIDCProvLock' = [cachedOIDCProvLock EXCEPT !.writer = w]
  /\ getters' = [getters EXCEPT ![w].pc = "store"]
  /\ UNCHANGED <<cachedOIDCProviders, provStores>>

\* cachedOIDCProviders[providerID] = prov; Unlock()
GStore(w) ==
  /\ getters[w].pc = "store"
  /\ cachedOIDCProviders' = cachedOIDCProviders \cup {getters[w].id}
  /\ provStores' = [provStores EXCEPT ![getters[w].id] = @ + 1]
  /\ cachedOIDCProvLock' = [cachedOIDCProvLock EXCEPT !.writer = "none"]
  /\ getters' = [getters EXCEPT ![w].pc = "done"]

\* getProvider returns to the handler.
GReturn(w) ==
  /\ getters[w].pc = "done"
  /\ getters' = [getters EXCEPT ![w] = Idle]
  /\ UNCHANGED <<cachedOIDCProviders, cachedOIDCProvLock, provStores>>

GetterStep(w) ==
  \/ GRLock(w)
  \/ GLookup(w)
  \/ GAttempt(w)
  \/ GWLock(w)
  \/ GStore(w)
  \/ GReturn(w)

\* What getProvider never touches.
outsideGetProvider ==
  <<txns, created, tokens, transientStore, accepted, resp, obs, workers, config, storeUp, clock>>

\* One goroutine takes its next step inside getProvider.
GetterRuns(w) == GetterStep(w) /\ UNCHANGED outsideGetProvider

NextProv ==
  \E w \in Workers :
    \/ GCall(w) /\ UNCHANGED outsideGetProvider
    \/ GetterRuns(w)

SpecProv == InitProv /\ [][NextProv]_vars

\* Every goroutine inside getProvider keeps being scheduled.
SpecProvLive == SpecProv /\ \A w \in Workers : WF_vars(GetterRuns(w))

\* ------------------------------------------- access_token as one object
\* Grant bodies whose access_token is a single TokenRequest object, not an
\* array of them.
SingleFormBodies ==
  [readable : {TRUE}, json : {"object"}, form : {"object"}, key : {ClientKey},
   access : {{"pre"}, {"pre", "consent"}}]
SingleFormRequests == {[body |-> b, signer |-> ClientKey] : b \in SingleFormBodies}

\* POST /gnap/auth with such a body.
AuthRequestSingle ==
  \E r \in SingleFormRequests :
    \E out \in {authRequestHandler(r)} :
    /\ txns' = out.txns
    /\ created' = out.created
    /\ tokens' = out.tokens
    /\ accepted' = out.accepted
    /\ resp' = [ep |-> "auth", status |-> out.status, body |-> out.body]
    /\ obs' = [ep |-> "auth", called |-> out.called, herr |-> out.herr,
               badjson |-> r.body.readable /\ ~UnmarshalAuthRequest(r.body),
               down |-> ~storeUp,
               signed |-> Verify(r.signer, r.body.key),
               single |-> TRUE]
    /\ UNCHANGED aside
    /\ UNCHANGED <<transientStore, cachedOIDCProviders, workers>>

NextDecode == Next \/ AuthRequestSingle

SpecDecode == Init /\ [][NextDecode]_vars

\* ------------------------------------------------- finish redirect (4.5)
\* The query of the client's finish URI is a sequence of pairs as written.
\* A pair is well formed, or it is one that url.ParseQuery cannot unescape
\* (as in x=%zz).  QueryKeys lists the keys in the order of sort.Strings.
QueryKeys == <<"hash", "interact_ref", "x", "z">>
RawPairs ==
  {[k |-> "x", v |-> "1", wf |-> TRUE],
   [k |-> "z", v |-> "1", wf |-> TRUE],
   [k |-> "interact_ref", v |-> "old", wf |-> TRUE],
   [k |-> "x", v |-> "%zz", wf |-> FALSE]}
RawQueries == UNION {[1 .. n -> RawPairs] : n \in 0 .. MaxQueryLen}
\* finish.uri: whether url.Parse accepts it, and its query.
FinishURIs ==
  [parses : {TRUE}, query : RawQueries] \cup {[parses |-> FALSE, query |-> <<>>]}

\* clientURI.Query(): the values of each key in order of appearance;
\* malformed pairs are silently discarded.
Query(raw) ==
  [k \in {QueryKeys[i] : i \in DOMAIN QueryKeys} |->
     LET sel == SelectSeq(raw, LAMBDA p : p.wf /\ p.k = k)
     IN [i \in 1 .. Len(sel) |-> sel[i].v]]

\* q.Add(key, value)
Add(q, key, value) == [q EXCEPT ![key] = Append(@, value)]

\* q.Encode(): the pairs sorted by key, the values of a key in order.
RECURSIVE EncodeFrom(_, _)
EncodeFrom(q, i) ==
  IF i > Len(QueryKeys) THEN <<>>
  ELSE [j \in 1 .. Len(q[QueryKeys[i]]) |-> [k |-> QueryKeys[i], v |-> q[QueryKeys[i]][j]]]
       \o EncodeFrom(q, i + 1)
Encode(q) == EncodeFrom(q, 1)

\* The end of oidcCallbackHandler, after CompleteInteraction returned
\* interactRef, responseHash and the client's finish URI.
RenderFinish(uri, interactRef, responseHash, templateOK) ==
  IF ~uri.parses
  THEN writeErrorResponse(StatusBadRequest, "client provided invalid redirect URI", "url")
  ELSE IF ~templateOK
  THEN writeErrorResponse(StatusInternalServerError, "failed to parse template", "template")
  ELSE [status |-> StatusOK,
        body |-> [RedirectURI |->
                    Encode(Add(Add(Query(uri.query), "interact_ref", interactRef),
                               "hash", responseHash))]]

\* The interact_ref and the response hash of transaction t as text.
RefText(t) == ToString(InteractRefOf(t))
HashText(t) == "h" \o ToString(InteractRefOf(t))

\* A callback whose CompleteInteraction succeeded renders the redirect.
FinishRedirect ==
  \E uri \in FinishURIs, t \in TxnIds, templateOK \in BOOLEAN :
    \E out \in {RenderFinish(uri, RefText(t), HashText(t), templateOK)} :
    /\ resp' = [ep |-> "callback", status |-> out.status, body |-> out.body]
    /\ obs' = [ep |-> "finish", uri |-> uri, interactRef |-> RefText(t), hash |-> HashText(t)]
    /\ UNCHANGED aside
    /\ UNCHANGED <<txns, created, tokens, transientStore, cachedOIDCProviders, accepted, workers>>

SpecFinish == Init /\ [][FinishRedirect]_vars

\* ------------------------------------------------------ http.ResponseWriter
\* The response writer of net/http: the header map the handler edits, and
\* what is committed to the wire.  "" stands for a header that is not set.
NoHeader == ""
NewResponseWriter ==
  [handlerHeader |-> NoHeader, wroteHeader |-> FALSE, status |-> 0,
   sentContentType |-> NoHeader, body |-> [none |-> TRUE]]

\* rw.WriteHeader(status): commits the status and the header map as it is
\* now; a second call changes nothing.
WriteHeader(rw, status) ==
  IF rw.wroteHeader THEN rw
  ELSE [rw EXCEPT !.wroteHeader = TRUE, !.status = status,
                  !.sentContentType = rw.handlerHeader]

\* rw.Header().Set("Content-Type", value): edits the handler's map, which
\* is no longer what goes to the wire once the header is written.
HeaderSet(rw, value) == [rw EXCEPT !.handlerHeader = value]

\* rw.Write(body): writes the header with 200 if it was not written, and
\* a body sent without Content-Type gets the sniffed one.
Write(rw, body) ==
  LET w == WriteHeader(rw, StatusOK) IN
  [w EXCEPT !.body = body,
            !.sentContentType = IF @ = NoHeader THEN "text/plain; charset=utf-8" ELSE @]

\* writeResponse(rw, v)
writeResponse(rw, v) == Write(HeaderSet(rw, "application/json"), v)

\* What a GNAP handler's answer `out` does to the response writer: an
\* error calls w.WriteHeader(status) and then writeResponse, the answer of
\* the auth handler is passed to writeResponse alone.
OnTheWire(out) ==
  IF out.status = StatusOK
  THEN writeResponse(NewResponseWriter, out.body)
  ELSE writeResponse(WriteHeader(NewResponseWriter, out.status), out.body)

\* The answers of the three GNAP endpoints to the requests of this state.
GNAPAnswers ==
  {[ep |-> "auth", out |-> authRequestHandler(r)] : r \in AuthRequestsNow}
  \cup {[ep |-> "continue", out |-> authContinueHandler(r)] : r \in ContinueRequests}
  \cup {[ep |-> "introspect", out |-> introspectHandler(r)] : r \in IntrospectRequests}

\* A GNAP request is handled and its response goes through the writer.
WireAnswer ==
  \E a \in GNAPAnswers :
    \E rw \in {OnTheWire(a.out)} :
    /\ txns' = a.out.txns
    /\ created' = a.out.created
    /\ tokens' = a.out.tokens
    /\ accepted' = a.out.accepted
    /\ resp' = [ep |-> a.ep, status |-> rw.status, body |-> rw.body,
                contentType |-> rw.sentContentType]
    /\ obs' = [ep |-> "wire"]
    /\ UNCHANGED aside
    /\ UNCHANGED <<transientStore, cachedOIDCProviders, workers>>

NextWire ==
  \/ WireAnswer
  \/ OIDCLogin
  \/ OIDCCallback
  \/ ExpireTxn
  \/ ExpireToken

SpecWire == Init /\ [][NextWire]_vars

\* ------------------------------------------------- Authorization header
\* Header values with a field after the token.
TrailingHeaders == {<<"GNAP", SP, ToString(c), SP, "x">> : c \in PresentedTokens}
\* Continuations with a decodable body under every shape of header.
HeaderRequests ==
  {[header |-> h, body |-> b, signer |-> ClientKey] :
     h \in GoodHeaders \cup OtherHeaders \cup PaddedHeaders \cup WideHeaders
           \cup TrailingHeaders,
     b \in GoodContinueBodies}

\* The credential of a header value: what follows the scheme and the
\* spaces after it, without the spaces around the value.
Credential(header) ==
  IF Trim(header) = <<>> THEN <<>> ELSE TrimLeft(Tail(Trim(header)))

\* POST /gnap/continue, recording the header and the token handed on.
AuthContinueHeader ==
  \E r \in HeaderRequests :
    \E out \in {authContinueHandler(r)} :
    /\ txns' = out.txns
    /\ created' = out.created
    /\ tokens' = out.tokens
    /\ accepted' = out.accepted
    /\ resp' = [ep |-> "continue", status |-> out.status, body |-> out.body]
    /\ obs' = [ep |-> "header", called |-> out.called, header |-> r.header,
               token |-> IF out.called THEN TokenOf(r.header) ELSE <<>>]
    /\ UNCHANGED aside
    /\ UNCHANGED <<transientStore, cachedOIDCProviders, workers>>

NextHeader == Next \/ AuthContinueHeader

SpecHeader == Init /\ [][NextHeader]_vars

\* ------------------------------------------------------------ store outage
\* The backing store of transactions and tokens goes down and comes back.
StoreFails ==
  /\ storeUp
  /\ storeUp' = FALSE
  /\ UNCHANGED <<txns, created, tokens, transientStore, cachedOIDCProviders, accepted,
                 resp, obs, workers, config, clock, cachedOIDCProvLock, provStores, getters>>

StoreRecovers ==
  /\ ~storeUp
  /\ storeUp' = TRUE
  /\ UNCHANGED <<txns, created, tokens, transientStore, cachedOIDCProviders, accepted,
                 resp, obs, workers, config, clock, cachedOIDCProvLock, provStores, getters>>

NextOutage ==
  \/ Next
  \/ StoreFails
  \/ StoreRecovers

SpecOutage == Init /\ [][NextOutage]_vars

\* ------------------------------------------------- concurrent continuations
\* POST /gnap/continue served by two goroutines.  A worker reads the
\* transaction (step 1), and in a later step validates what it read and
\* updates the store; requests are well formed and signed by the client.
InFlight(c, i, snap) ==
  [pc |-> "read", tok |-> c, ref |-> i, snap |-> snap, status |-> 0]

WLookup(w) ==
  /\ workers[w].pc = "idle"
  /\ \E c \in PresentedTokens, i \in PresentedRefs :
       workers' = [workers EXCEPT ![w] = InFlight(c, i, ContinueLookup(HandleString(c)))]
  /\ UNCHANGED aside
  /\ UNCHANGED <<txns, created, tokens, transientStore, cachedOIDCProviders, accepted,
                 resp, obs>>

WCommit(w) ==
  /\ workers[w].pc = "read"
  /\ \E h \in {ContinueCommit(workers[w].snap, [interact_ref |-> workers[w].ref], ClientKey)} :
       /\ txns' = h.txns
       /\ tokens' = h.tokens
       /\ accepted' = h.accepted
       /\ workers' = [workers EXCEPT ![w].pc = "done",
                                     ![w].status = IF h.err THEN StatusUnauthorized
                                                   ELSE StatusOK]
  /\ UNCHANGED aside
  /\ UNCHANGED <<created, transientStore, cachedOIDCProviders, resp, obs>>

\* The response is written and the goroutine ends.
WReturn(w) ==
  /\ workers[w].pc = "done"
  /\ workers' = [workers EXCEPT ![w] = Idle]
  /\ UNCHANGED aside
  /\ UNCHANGED <<txns, created, tokens, transientStore, cachedOIDCProviders, accepted,
                 resp, obs>>

\* The requests that bring a transaction to the continuation while the
\* workers run: the client's grant request, the login and the callback of
\* a completed OIDC exchange.  Their responses are not recorded here.
RaceGrant ==
  \E r \in {x \in AuthRequestsNow :
               /\ x.body.readable /\ UnmarshalAuthRequest(x.body)
               /\ x.body.key = ClientKey /\ x.signer = ClientKey} :
    \E out \in {authRequestHandler(r)} :
    /\ txns' = out.txns
    /\ created' = out.created
    /\ tokens' = out.tokens
    /\ accepted' = out.accepted
    /\ UNCHANGED aside
    /\ UNCHANGED <<transientStore, cachedOIDCProviders, resp, obs, workers>>

RaceLogin ==
  \E r \in {x \in LoginRequests :
               x.provider \in Providers /\ x.txnID \in TxnIds /\ x.initOK /\ x.putOK} :
    \E out \in {oidcLoginHandler(r)} :
    /\ out.status = StatusFound => Cardinality(MintedStates) < MaxOIDCStates
    /\ transientStore' = out.store
    /\ cachedOIDCProviders' = out.cache
    /\ UNCHANGED aside
    /\ UNCHANGED <<txns, created, tokens, accepted, resp, obs, workers>>

RaceCallback ==
  \E r \in {x \in CallbackRequests :
               /\ x.state \in OIDCStates /\ x.code # "" /\ x.initOK
               /\ x.oidc = [step |-> "ok", sub |-> "alice"] /\ x.after = "ok"} :
    \E out \in {oidcCallbackHandler(r)} :
    /\ txns' = out.txns
    /\ transientStore' = out.store
    /\ cachedOIDCProviders' = out.cache
    /\ UNCHANGED aside
    /\ UNCHANGED <<created, tokens, accepted, resp, obs, workers>>

NextRace ==
  \/ RaceGrant
  \/ RaceLogin
  \/ RaceCallback
  \/ ExpireTxn
  \/ \E w \in Workers : WLookup(w)
  \/ \E w \in Workers : WCommit(w)
  \/ \E w \in Workers : WReturn(w)

SpecRace == Init /\ [][NextRace]_vars

\* ================================================================= claims
\* What the auth handler answers to a decoded request of each endpoint.
AuthCall(r) == HandleAccessRequest([key |-> r.body.key, access |-> r.body.access], r.signer)
ContinueCall(r) ==
  HandleContinueRequest([interact_ref |-> r.body.ref.v], TokenOf(r.header), r.signer)
IntrospectCall(r) == HandleIntrospection(r.body, r.signer)

\* The adapter's answer `out` mirrors the handler's answer `h`.
Mirrors(out, h) ==
  /\ (out.status = StatusOK /\ out.body = h.resp) <=> ~h.err
  /\ h.err => out.status = StatusUnauthorized /\ out.body = ErrorResponse(errRequestDenied)

\* The stores as the handler leaves them are the stores as it found them.
StoresUntouched(out) ==
  /\ out.txns = txns
  /\ out.tokens = tokens
  /\ out.created = created
  /\ out.accepted = accepted

\* A readable body that does not decode to the endpoint's request type.
Undecodable(b) ==
  /\ b.readable
  /\ \/ b.json # "object"
     \/ "ref" \in DOMAIN b /\ b.ref.t = "number"

\* C1: on /gnap/auth, /gnap/continue (header of the form GNAP <token>) and
\* /gnap/introspect with a readable, decodable body, the response is 200
\* with the handler's response object exactly when the handler call returns
\* no error, and 401 request_denied whenever it returns an error.
C1_ResponseMirrorsHandler ==
  /\ \A r \in AuthRequestsNow :
       (r.body.readable /\ ~Undecodable(r.body)) => Mirrors(authRequestHandler(r), AuthCall(r))
  /\ \A r \in ContinueRequests :
       (IsGNAPForm(r.header) /\ r.body.readable /\ ~Undecodable(r.body))
         => Mirrors(authContinueHandler(r), ContinueCall(r))
  /\ \A r \in IntrospectRequests :
       (r.body.readable /\ ~Undecodable(r.body)) => Mirrors(introspectHandler(r), IntrospectCall(r))

\* C1 witness: a continuation the handler accepted was answered 200 with
\* the access token the handler issued.
C1_Witness ==
  /\ obs.ep = "continue" /\ obs.called /\ ~obs.herr
  /\ resp.status = StatusOK /\ resp.body.access_token # {}

\* C2 as claimed: on each of the three POST endpoints a readable body that
\* is not valid JSON for the request type is answered 400 invalid_request
\* and the handler is not invoked.
C2_UndecodableIs400 ==
  (obs.ep \in {"auth", "continue", "introspect"} /\ obs.badjson) =>
    /\ resp.status = StatusBadRequest
    /\ resp.body = ErrorResponse(errInvalidRequest)
    /\ ~obs.called

\* C2 amended: as C2, on /gnap/continue only for requests whose
\* Authorization header is of the form GNAP <token>.
C2_UndecodableIs400_GivenHeader ==
  /\ \A r \in AuthRequestsNow : Undecodable(r.body) =>
       LET out == authRequestHandler(r) IN
       /\ out.status = StatusBadRequest /\ out.body = ErrorResponse(errInvalidRequest)
       /\ ~out.called /\ StoresUntouched(out)
  /\ \A r \in ContinueRequests : (IsGNAPForm(r.header) /\ Undecodable(r.body)) =>
       LET out == authContinueHandler(r) IN
       /\ out.status = StatusBadRequest /\ out.body = ErrorResponse(errInvalidRequest)
       /\ ~out.called /\ StoresUntouched(out)
  /\ \A r \in IntrospectRequests : Undecodable(r.body) =>
       LET out == introspectHandler(r) IN
       /\ out.status = StatusBadRequest /\ out.body = ErrorResponse(errInvalidRequest)
       /\ ~out.called /\ StoresUntouched(out)

\* C2 witness: a continuation with a GNAP header and an undecodable body
\* was answered 400 while a transaction was waiting for it.
C2_Witness ==
  /\ obs.ep = "continue" /\ obs.form /\ obs.badjson
  /\ resp.status = StatusBadRequest /\ resp.body = ErrorResponse(errInvalidRequest)
  /\ \E t \in TxnIds : txns[t].state = "ready_to_continue"

\* C3: a continuation whose Authorization header is missing or not of the
\* form GNAP <token> is answered 401 request_denied without the handler
\* being invoked, whatever the body holds.
C3_BadHeaderIs401 ==
  \A r \in ContinueRequests : ~IsGNAPForm(r.header) =>
    LET out == authContinueHandler(r) IN
    /\ out.status = StatusUnauthorized /\ out.body = ErrorResponse(errRequestDenied)
    /\ ~out.called /\ StoresUntouched(out)

\* C3 witness: a continuation without a GNAP header and with an
\* undecodable body was answered 401.
C3_Witness ==
  /\ obs.ep = "continue" /\ ~obs.form /\ obs.badjson /\ ~obs.called
  /\ resp.status = StatusUnauthorized

\* C4: once a continuation presenting token T has succeeded, every
\* continuation presenting T is answered 401 request_denied, issues no
\* access token and leaves the transaction unchanged.
C4_ContinueTokenOnce ==
  \A a \in accepted : \A r \in ContinueRequests :
    (r.header = <<"GNAP", SP, ToString(a[1])>> /\ r.body.readable /\ ~Undecodable(r.body)) =>
      LET out == authContinueHandler(r) IN
      /\ out.status = StatusUnauthorized /\ out.body = ErrorResponse(errRequestDenied)
      /\ StoresUntouched(out)

\* C4 witness: a continuation replaying an accepted token reached the
\* handler and was answered 401.
C4_Witness ==
  /\ obs.ep = "continue" /\ obs.called /\ obs.replay /\ ~obs.changed
  /\ resp.status = StatusUnauthorized

\* C5: of two continuation requests in flight for one transaction at most
\* one is answered 200, the other 401; a transaction is continued at most
\* once and its access token is issued by that one continuation.
C5_OneContinuationWins ==
  /\ \A a, b \in accepted : a[3] = b[3] => a = b
  /\ \A w1, w2 \in Workers :
       (/\ w1 # w2
        /\ workers[w1].pc = "done" /\ workers[w2].pc = "done"
        /\ workers[w1].snap.found /\ workers[w2].snap.found
        /\ workers[w1].snap.id = workers[w2].snap.id)
         => \/ workers[w1].status = StatusUnauthorized
            \/ workers[w2].status = StatusUnauthorized
  /\ \A w \in Workers :
       workers[w].pc = "done" => workers[w].status \in {StatusOK, StatusUnauthorized}

\* C5 witness: both workers read the transaction in ready_to_continue with
\* the interact_ref it holds; one was answered 200 and the other 401.
C5_Witness ==
  \E w1, w2 \in Workers :
    /\ workers[w1].pc = "done" /\ workers[w2].pc = "done"
    /\ workers[w1].snap = workers[w2].snap
    /\ workers[w1].snap.found
    /\ workers[w1].snap.txn.state = "ready_to_continue"
    /\ workers[w1].ref = workers[w1].snap.txn.iref
    /\ workers[w2].ref = workers[w2].snap.txn.iref
    /\ workers[w1].status = StatusOK
    /\ workers[w2].status = StatusUnauthorized

\* C6: an interact_ref comes into being only through a successful
\* CompleteInteraction, a continuation accepts it only for a transaction in
\* ready_to_continue whose stored interact_ref it equals, accepting clears
\* it, and no interact_ref is accepted twice.
C6_InteractRefOnce ==
  /\ \A t \in TxnIds : txns[t].iref # 0 => txns[t].state \in {"ready_to_continue", "expired"}
  /\ \A r \in AuthRequestsNow : \A t \in TxnIds :
       authRequestHandler(r).txns[t].iref \in {0, txns[t].iref}
  /\ \A r \in CallbackRequests :
       LET out == oidcCallbackHandler(r) IN
       \A t \in TxnIds :
         out.txns[t].iref \notin {0, txns[t].iref} =>
           /\ out.completed
           /\ ~CompleteInteraction(TransientGet(r.state).data.txnID, r.oidc.sub).err
  /\ \A r \in ContinueRequests :
       LET out == authContinueHandler(r) IN
       /\ \A t \in TxnIds : out.txns[t].iref \in {0, txns[t].iref}
       /\ out.status = StatusOK =>
            \E t \in ByContinueToken(TokenOf(r.header)) :
              /\ txns[t].state = "ready_to_continue"
              /\ txns[t].iref # 0
              /\ r.body.ref = [t |-> "string", v |-> txns[t].iref]
              /\ out.txns[t].iref = 0
  /\ \A a, b \in accepted : a[2] = b[2] => a = b

\* C6 witness: after a continuation consumed an interact_ref, a
\* continuation presenting that interact_ref with a token not yet used
\* was refused.
C6_Witness ==
  /\ obs.ep = "continue" /\ obs.called /\ obs.herr /\ obs.refUsed /\ ~obs.replay
  /\ resp.status = StatusUnauthorized

\* C7 as claimed: the callback consumes the OIDC-Transient record, so once
\* a callback has found the record of state S, a callback presenting S
\* finds no record and stops before the code exchange.
C7_TransientOneShot ==
  (obs.ep = "callback" /\ obs.found) =>
    \A r \in CallbackRequests :
      (r.state = obs.state /\ r.code # "") =>
        LET out == oidcCallbackHandler(r) IN
        ~out.found /\ ~out.exchanged /\ ~out.completed

\* C8: CompleteInteraction succeeds only for a transaction in
\* awaiting_interaction and moves it to ready_to_continue; a callback for a
\* transaction that is ready_to_continue, issued or expired fails and
\* changes nothing of the transaction.
C8_CompleteOnlyAwaiting ==
  \A r \in CallbackRequests :
    LET out == oidcCallbackHandler(r)
        t == TransientGet(r.state).data.txnID
    IN out.completed =>
         /\ out.status = StatusOK =>
              /\ t \in TxnIds
              /\ txns[t].state = "awaiting_interaction"
              /\ out.txns[t].state = "ready_to_continue"
         /\ (t \in TxnIds /\ txns[t].state \in {"ready_to_continue", "issued", "expired"}) =>
              /\ out.status = StatusInternalServerError
              /\ out.txns = txns

\* C8 witness: a callback for a transaction that had already completed its
\* interaction reached CompleteInteraction and was answered with an error.
C8_Witness ==
  /\ obs.ep = "callback" /\ obs.completed
  /\ resp.status = StatusInternalServerError
  /\ resp.body.detail = "wrong_state"
  /\ \E t \in TxnIds :
       /\ transientStore[obs.state].txnID = t
       /\ txns[t].state = "ready_to_continue"
       /\ txns[t].iref = InteractRefOf(t)

\* C9: no access token exists for a transaction whose pending_access is not
\* empty: a grant request answers with access tokens exactly when the
\* policy leaves nothing pending and otherwise with interact and continue
\* data only, and a continuation issues tokens only for a transaction whose
\* pending_access the consent has emptied.
C9_NoTokenWhilePending ==
  /\ \A v \in TokenValues : tokens[v].state # "none" => txns[tokens[v].txn].pending = {}
  /\ \A t \in TxnIds : txns[t].state = "issued" => txns[t].pending = {}
  /\ \A r \in AuthRequestsNow :
       LET out == authRequestHandler(r) IN
       (created < MaxTxn /\ out.status = StatusOK) =>
         IF AccessPolicy(r.body.access).pending = {}
         THEN /\ out.body.access_token # {}
              /\ out.txns[created + 1].state = "issued"
         ELSE /\ out.body.access_token = {}
              /\ out.body.continue # 0
              /\ out.body.interact # 0
              /\ out.tokens = tokens
              /\ out.txns[created + 1].state = "awaiting_interaction"
  /\ \A r \in ContinueRequests :
       LET out == authContinueHandler(r) IN
       out.status = StatusOK =>
         /\ out.body.access_token # {}
         /\ \A t \in ByContinueToken(TokenOf(r.header)) :
              txns[t].pending = {} /\ txns[t].requested = txns[t].authorized

\* C9 witness: a transaction that was granted with access pending consent
\* holds a token after its continuation, with nothing pending.
C9_Witness ==
  /\ obs.ep = "continue" /\ resp.status = StatusOK
  /\ \E t \in TxnIds :
       /\ txns[t].state = "issued"
       /\ "consent" \in txns[t].authorized
       /\ tokens[TokenValueOf(t)].state = "active"

\* Requests that fail on the handle they present and on nothing else.
ContinueHandleFailures ==
  {r \in ContinueRequests :
     /\ IsGNAPForm(r.header) /\ r.body.readable /\ ~Undecodable(r.body)
     /\ r.body.ref.t = "string" /\ r.signer = ClientKey
     /\ authContinueHandler(r).status # StatusOK}
IntrospectHandleFailures ==
  {r \in IntrospectRequests :
     /\ r.body.readable /\ ~Undecodable(r.body)
     /\ r.body.rsKey = ClientKey /\ r.signer = ClientKey /\ ~r.body.access.present
     /\ ~introspectHandler(r).body.active}
CallbackHandleFailures ==
  {r \in CallbackRequests :
     /\ r.state # 0 /\ r.code # "" /\ r.oidc = [step |-> "ok", sub |-> "alice"] /\ r.initOK
     /\ r.after = "ok"
     /\ oidcCallbackHandler(r).status # StatusOK}

\* C10 as claimed: on /gnap/continue, /gnap/introspect and /oidc/callback
\* two requests that differ only in the handle they present, and fail on
\* it, get the same status and the same body.
C10_NoHandleDisclosure ==
  /\ \A r1, r2 \in ContinueHandleFailures :
       /\ authContinueHandler(r1).status = authContinueHandler(r2).status
       /\ authContinueHandler(r1).body = authContinueHandler(r2).body
  /\ \A r1, r2 \in IntrospectHandleFailures :
       /\ introspectHandler(r1).status = introspectHandler(r2).status
       /\ introspectHandler(r1).body = introspectHandler(r2).body
  /\ \A r1, r2 \in CallbackHandleFailures :
       /\ oidcCallbackHandler(r1).status = oidcCallbackHandler(r2).status
       /\ oidcCallbackHandler(r1).body = oidcCallbackHandler(r2).body

\* C11 as claimed: no configuration lets a request from the network skip
\* proof verification: a grant, a continuation or an introspection is
\* answered 200 only when the signature of the request verifies against
\* the key it is checked with.
C11_NoBypassFromNetwork ==
  /\ (obs.ep = "auth" /\ resp.status = StatusOK) => obs.signed
  /\ (obs.ep = "introspect" /\ resp.status = StatusOK) => obs.signed
  /\ \A r \in ContinueRequests :
       authContinueHandler(r).status = StatusOK =>
         \A t \in ByContinueToken(TokenOf(r.header)) : Verify(r.signer, txns[t].key)

\* C14: the callback invokes CompleteInteraction exactly when state and code
\* are present, the record of the state is found, the provider resolves,
\* the code is exchanged, the id_token is present and verified and its
\* claims are extracted; it passes the txn_id stored under the state and
\* the sub claim; when a step fails it answers an error and no transaction
\* changes.
C14_CompleteAfterAllSteps ==
  \A r \in CallbackRequests :
    \A out \in {oidcCallbackHandler(r)}, g \in {TransientGet(r.state)} :
    LET c == CompleteInteraction(g.data.txnID, r.oidc.sub)
    IN /\ out.completed <=>
            /\ r.state # 0 /\ r.code # ""
            /\ ~g.err
            /\ ~getProvider(g.data.provider, r.initOK).err
            /\ r.oidc.step = "ok"
       /\ out.completed =>
            /\ out.found /\ out.exchanged
            /\ out.txns = c.txns
            /\ out.status = StatusOK => out.body.interact_ref = c.interactRef
       /\ ~out.completed => out.status # StatusOK /\ out.txns = txns

\* C14 witness: for a transaction awaiting its interaction the code was
\* exchanged, the id_token did not verify, and the callback was answered
\* 403 without completing the interaction.
C14_Witness ==
  /\ obs.ep = "callback" /\ obs.found /\ obs.exchanged /\ ~obs.completed
  /\ resp.status = StatusForbidden
  /\ \E t \in TxnIds :
       /\ transientStore[obs.state].txnID = t
       /\ txns[t].state = "awaiting_interaction"

\* C15: the login answers 302 exactly when it wrote a record to the
\* transient store; the record is written under a state that held none,
\* carries the provider and the txnID of the query, and the redirect
\* carries that state; every other response is an error that leaves the
\* transient store unchanged.
C15_LoginRedirectIffStored ==
  Cardinality(MintedStates) < MaxOIDCStates =>
    \A r \in LoginRequests :
      \A out \in {oidcLoginHandler(r)} :
      /\ out.status = StatusFound <=> out.store # transientStore
      /\ out.status = StatusFound =>
           /\ transientStore[out.body.state] = NoRecord
           /\ out.store = [transientStore EXCEPT ![out.body.state] =
                             [provider |-> r.provider, txnID |-> r.txnID]]
           /\ r.provider # "" /\ r.txnID # 0
      /\ out.status # StatusFound =>
           out.status \in {StatusBadRequest, StatusInternalServerError}

\* C15 witness: a login was answered 302 and the transient store holds the
\* record under the state of the redirect.
C15_Witness ==
  /\ obs.ep = "login" /\ resp.status = StatusFound
  /\ transientStore[resp.body.state].provider = resp.body.redirect
  /\ transientStore[resp.body.state].txnID \in TxnIds

\* The error responses of the GNAP endpoints: 400 with invalid_request,
\* 401 and 500 with request_denied, 500 only for a body that cannot be read.
GNAPError(out, r) ==
  /\ out.status \in {StatusBadRequest, StatusUnauthorized, StatusInternalServerError}
  /\ out.body \in {ErrorResponse(errInvalidRequest), ErrorResponse(errRequestDenied)}
  /\ out.status = StatusBadRequest <=> out.body = ErrorResponse(errInvalidRequest)
  /\ out.status = StatusInternalServerError => ~r.body.readable

\* C16: every response of POST /gnap/auth, /gnap/continue and
\* /gnap/introspect other than 200 is an ErrorResponse of that shape.
C16_ErrorShapes ==
  /\ \A r \in AuthRequestsNow :
       \A out \in {authRequestHandler(r)} : out.status # StatusOK => GNAPError(out, r)
  /\ \A r \in ContinueRequests :
       \A out \in {authContinueHandler(r)} : out.status # StatusOK => GNAPError(out, r)
  /\ \A r \in IntrospectRequests :
       \A out \in {introspectHandler(r)} : out.status # StatusOK => GNAPError(out, r)

\* C16 witness: a grant request whose body could not be read was answered
\* 500 request_denied.
C16_Witness ==
  /\ obs.ep = "auth" /\ ~obs.called /\ ~obs.badjson
  /\ resp.status = StatusInternalServerError
  /\ resp.body = ErrorResponse(errRequestDenied)

\* C17 as claimed: a correctly signed GNAP request that reaches the auth
\* handler while the backing store is down is answered 500 request_denied.
C17_StoreDownIs500 ==
  (obs.ep \in {"auth", "introspect"} /\ obs.down /\ obs.called /\ obs.signed) =>
    /\ resp.status = StatusInternalServerError
    /\ resp.body = ErrorResponse(errRequestDenied)

\* C18 as claimed: an introspection whose Authorization header is missing
\* or not of scheme GNAP is answered 401 request_denied and
\* HandleIntrospection is not invoked.
C18_IntrospectNeedsGNAPHeader ==
  (obs.ep = "introspect" /\ ~obs.form) =>
    /\ resp.status = StatusUnauthorized
    /\ resp.body = ErrorResponse(errRequestDenied)
    /\ ~obs.called

\* C19 as claimed: introspecting a token issued at time t with
\* expires_in = n answers active:true exactly when the time of the query
\* is at most t + n.
C19_ActiveUntilExpiry ==
  (/\ obs.ep = "introspect"
   /\ obs.value \in TokenValues
   /\ tokens[obs.value].state # "none") =>
    (resp.body.active <=> obs.at <= clock.expiresAt[obs.value])

\* C12 as claimed: concurrent getProvider calls for one provider id run
\* initOIDCProvider at most once for it, and its cache entry is written
\* once and never replaced.
C12_InitOnce ==
  /\ \A w1, w2 \in Workers :
       (w1 # w2 /\ Initializing(w1) /\ Initializing(w2)) => getters[w1].id # getters[w2].id
  /\ \A p \in Providers : provStores[p] <= 1

\* C13: a getter holds the shared read lock only for the map lookup: no
\* getter inside initOIDCProvider, waiting for the write lock or returning
\* holds it.
C13_NoInitUnderRLock ==
  \A w \in Workers :
    w \in cachedOIDCProvLock.readers => getters[w].pc = "lookup"

\* C13 witness: one getter is inside initOIDCProvider after a retry while
\* the other holds the read lock for its lookup.
C13_Witness ==
  \E w1, w2 \in Workers :
    /\ getters[w1].pc = "init" /\ getters[w1].tries > 0
    /\ getters[w2].pc = "lookup"
    /\ cachedOIDCProvLock.readers = {w2}

\* C20 as claimed: initOIDCProvider terminates whatever the upstream
\* provider does: a getter that entered it leaves it, with the provider or
\* with an error.
C20_InitTerminates ==
  \A w \in Workers :
    (getters[w].pc = "init") ~> (getters[w].pc \in {"wlock", "done"})

\* C21 as claimed: a grant request whose access_token is a single
\* TokenRequest object is decoded and handed to the auth handler like the
\* one-element array, never answered 400 invalid_request.
C21_SingleObjectAccepted ==
  (obs.ep = "auth" /\ "single" \in DOMAIN obs) =>
    /\ obs.called
    /\ resp.status # StatusBadRequest

\* How often the pair of key k and value v occurs in a query.
Occurs(query, k, v) == Cardinality({i \in DOMAIN query : query[i].k = k /\ query[i].v = v})

\* C22 as claimed: after a successful CompleteInteraction the rendered
\* redirect carries every query parameter of finish.uri and exactly two
\* more, interact_ref and hash as CompleteInteraction returned them; when
\* finish.uri does not parse an error is answered and nothing is rendered.
C22_RedirectKeepsQuery ==
  obs.ep = "finish" =>
    /\ ~obs.uri.parses => resp.status = StatusBadRequest
    /\ resp.status = StatusOK =>
         /\ Len(resp.body.RedirectURI) = Len(obs.uri.query) + 2
         /\ \A p \in RawPairs \cup {[k |-> "interact_ref", v |-> obs.interactRef, wf |-> TRUE],
                                   [k |-> "hash", v |-> obs.hash, wf |-> TRUE]} :
              Occurs(resp.body.RedirectURI, p.k, p.v) =
                Occurs(obs.uri.query, p.k, p.v)
                + (IF p.k = "interact_ref" /\ p.v = obs.interactRef THEN 1 ELSE 0)
                + (IF p.k = "hash" THEN 1 ELSE 0)

\* C23 as claimed: every JSON body the GNAP endpoints write, the
\* ErrorResponse bodies of 400, 401 and 500 included, is sent with
\* Content-Type: application/json.
C23_JSONContentType ==
  obs.ep = "wire" => resp.contentType = "application/json"

\* C24 as claimed: for every Authorization header value the continuation
\* is rejected with 401 before the auth handler, or HandleContinueRequest
\* gets a non-empty token that is the whole credential after the scheme.
C24_TokenIsCredential ==
  obs.ep = "header" =>
    \/ ~obs.called /\ resp.status = StatusUnauthorized
    \/ /\ obs.called
       /\ obs.token # <<>>
       /\ obs.token = Credential(obs.header)

\* C25: getProvider changes the provider cache only on success.  A step
\* that changes the cache is the store of a getter whose initialization
\* succeeded and adds that getter's configured id; a lookup that finds the
\* id cached returns it, and one for an id that is not configured returns
\* an error, neither entering initOIDCProvider; a getter whose
\* initialization fails returns an error and leaves the cache as it was.
C25_CacheOnlyOnSuccess ==
  [][/\ cachedOIDCProviders' # cachedOIDCProviders =>
          \E w \in Workers :
            /\ getters[w].pc = "store" /\ getters[w].ok
            /\ getters[w].id \in Providers
            /\ cachedOIDCProviders' = cachedOIDCProviders \cup {getters[w].id}
            /\ getters'[w].pc = "done" /\ getters'[w].ok
     /\ \A w \in Workers :
          /\ (getters[w].pc = "lookup" /\ getters'[w] # getters[w]) =>
               /\ getters[w].id \in cachedOIDCProviders =>
                    getters'[w].pc = "done" /\ getters'[w].ok
               /\ getters[w].id \notin cachedOIDCProviders \cup Providers =>
                    getters'[w].pc = "done" /\ ~getters'[w].ok
               /\ getters'[w].pc = "init" =>
                    getters[w].id \in Providers \ cachedOIDCProviders
          /\ (getters[w].pc = "init" /\ getters'[w].pc = "done") =>
               /\ ~getters'[w].ok
               /\ getters[w].tries = config.timeout
               /\ cachedOIDCProviders' = cachedOIDCProviders
          /\ (getters[w].pc = "init" /\ getters'[w].pc = "wlock") => getters'[w].ok
    ]_vars

\* C25 witness: one getter returned the error of a failed initialization,
\* the cache still lacks the provider, and a later call for the same id is
\* initializing it again.
C25_Witness ==
  \E w1, w2 \in Workers :
    /\ getters[w1].pc = "done" /\ ~getters[w1].ok
    /\ getters[w1].id \in Providers \ cachedOIDCProviders
    /\ getters[w2].pc = "init" /\ getters[w2].id = getters[w1].id
    /\ \A p \in Providers : provStores[p] = 0

====
